---- MODULE Spec2Model ----
(***************************************************************************)
(* Big Daddy Converter (src/image_converter.py).                           *)
(*                                                                         *)
(* A file path is a record [valid, dir, stem, ext]: dir is the sequence of *)
(* directory components, stem and ext are sequences of one-character       *)
(* strings, ext is the suffix without its leading dot (<<>> = no suffix).   *)
(* valid = FALSE stands for an argument that pathlib.Path() rejects        *)
(* (None, an int, bytes).  An extension such as '.png' is <<"p","n","g">>.  *)
(***************************************************************************)
EXTENDS Integers, Sequences, FiniteSets, TLC

VARIABLES
    platform,        \* "posix" | "windows": pathlib flavour of the process
    tree,            \* the files on disk
    output_dir,      \* ImageConverter.output_dir
    quality,         \* ImageConverter.quality
    call,            \* arguments of the last direct convert_image call
    result,          \* what that call produced
    pc,              \* "main" | "folder" | "gui" | "exit": where the process is
                     \* ("lib": no process, the class is used directly)
    args,            \* argparse namespace: folder, output, quality, recursive
    exit_code,       \* <<status>> once the process has exited, <<>> before
    image_files,     \* convert_folder: the enumerated files
    results,         \* convert_folder: the outcomes appended so far
    io,              \* calls made by the running batch: convert_image (called),
                     \* Path.mkdir (made), Image.save (saved)
    pending_files,   \* ConverterGUI: the queue, a sequence of paths
    selected_files,  \* ConverterGUI: set of selected indices (0-based)
    drag_start_index,\* ConverterGUI: <<>> for None, else <<index>>
    is_converting,   \* ConverterGUI
    should_stop,     \* ConverterGUI
    quality_var,     \* text of the quality entry
    target_format_var, \* selection of the format combobox
    workers,         \* the conversion threads started so far, in order
    after_queue,     \* conversion_complete callbacks posted with root.after
    output_file_sizes, \* ConverterGUI: the keys of the dict (queued paths)
    is_dragging,     \* ConverterGUI
    thumbnails,      \* ConverterGUI: the keys of thumbnails and thumbnail_photos
    sel_iter,        \* the set iterator of the comprehension in
                     \* get_files_to_convert while the thread runs it, else <<>>
    started_with     \* history, kept by StartRecorded only: what
                     \* get_files_to_convert would have returned when
                     \* start_conversion started the batch, until the thread
                     \* has its own list

envVars == <<platform, tree>>
libVars == <<call, result>>
cliVars == <<args, exit_code, image_files, results>>
guiVars == <<pending_files, selected_files, drag_start_index, is_converting,
             should_stop, quality_var, target_format_var, workers, after_queue,
             output_file_sizes, is_dragging, thumbnails, sel_iter, started_with>>
vars == <<platform, tree, output_dir, quality, call, result,
          pc, args, exit_code, image_files, results, io,
          pending_files, selected_files, drag_start_index, is_converting,
          should_stop, quality_var, target_format_var, workers, after_queue,
          output_file_sizes, is_dragging, thumbnails, sel_iter, started_with>>

----------------------------------------------------------------------------
(* Characters and str.lower / str.upper *)

LowerChars == <<"a","b","c","d","e","f","g","h","i","j","k","l","m",
                "n","o","p","q","r","s","t","u","v","w","x","y","z">>
UpperChars == <<"A","B","C","D","E","F","G","H","I","J","K","L","M",
                "N","O","P","Q","R","S","T","U","V","W","X","Y","Z">>

\* the case maps as lookup tables
LowerOf == [c \in { UpperChars[i] : i \in 1..26 } |->
              LowerChars[CHOOSE i \in 1..26 : UpperChars[i] = c]]
UpperOf == [c \in { LowerChars[i] : i \in 1..26 } |->
              UpperChars[CHOOSE i \in 1..26 : LowerChars[i] = c]]

LowerChar(c) == IF c \in DOMAIN LowerOf THEN LowerOf[c] ELSE c

UpperChar(c) == IF c \in DOMAIN UpperOf THEN UpperOf[c] ELSE c

lower(s) == [i \in DOMAIN s |-> LowerChar(s[i])]
upper(s) == [i \in DOMAIN s |-> UpperChar(s[i])]

----------------------------------------------------------------------------
(* Class constants of ImageConverter *)

SUPPORTED_FORMATS ==
    { <<"p","n","g">>, <<"j","p","g">>, <<"j","p","e","g">>, <<"w","e","b","p">>,
      <<"b","m","p">>, <<"g","i","f">>, <<"t","i","f","f">>, <<"t","i","f">>,
      <<"i","c","o">>, <<"j","f","i","f">>, <<"j","p","e">>, <<"j","p","2">>,
      <<"j","p","x">>, <<"j","2","k">>, <<"j","2","c">>, <<"p","c","x">>,
      <<"p","p","m">>, <<"p","g","m">>, <<"p","b","m">>, <<"p","n","m">>,
      <<"s","v","g">>, <<"h","e","i","c">>, <<"h","e","i","f">>, <<"a","v","i","f">> }

TRANSPARENCY_FORMATS ==
    { <<"p","n","g">>, <<"g","i","f">>, <<"w","e","b","p">>, <<"t","i","f","f">>,
      <<"t","i","f">>, <<"i","c","o">> }

LOSSY_FORMATS ==
    { <<"j","p","g">>, <<"j","p","e","g">>, <<"j","f","i","f">>, <<"j","p","e">>,
      <<"j","p","2">>, <<"j","p","x">>, <<"j","2","k">>, <<"j","2","c">>,
      <<"w","e","b","p">> }

PNG_TARGET_FORMATS ==
    { <<"g","i","f">>, <<"b","m","p">>, <<"t","i","f","f">>, <<"t","i","f">>,
      <<"i","c","o">>, <<"p","c","x">>, <<"p","p","m">>, <<"p","g","m">>,
      <<"p","b","m">>, <<"p","n","m">> }

PNG  == <<"p","n","g">>
WEBP == <<"w","e","b","p">>
JPG  == <<"j","p","g">>

----------------------------------------------------------------------------
(* Python None for a target format / a directory, and the absent path *)

None   == <<"None">>
NoPath == [valid |-> FALSE, dir |-> <<>>, stem |-> <<>>, ext |-> <<>>]

MkPath(d, s, e) == [valid |-> TRUE, dir |-> d, stem |-> s, ext |-> e]

\* `if self.output_dir:` - None and the empty string are both falsy
Truthy(d) == d # None /\ d # <<>>

\* PurePath.__eq__: PosixPath compares the parts as they are, WindowsPath
\* compares them case-folded
PathEq(p, q) ==
    IF platform = "windows"
    THEN /\ p.valid = q.valid
         /\ p.dir = q.dir
         /\ lower(p.stem) = lower(q.stem)
         /\ lower(p.ext) = lower(q.ext)
    ELSE p = q

\* a test that lets every extension through
is_supported_Any(file_path) == TRUE

is_supported(file_path) == lower(file_path.ext) \in SUPPORTED_FORMATS

Converted == <<"_","c","o","n","v","e","r","t","e","d">>

\* get_output_path without the `if output_path == input_path` branch
get_output_path_NoRename(input_path, target_format) ==
    IF Truthy(output_dir)
    THEN MkPath(output_dir, input_path.stem, target_format)
    ELSE MkPath(input_path.dir, input_path.stem, target_format)

get_output_path(input_path, target_format) ==
    LET base == IF Truthy(output_dir)
                THEN MkPath(output_dir, input_path.stem, input_path.ext)
                ELSE MkPath(input_path.dir, input_path.stem, input_path.ext)
        output_path == [base EXCEPT !.ext = target_format]
    IN  IF PathEq(output_path, input_path)
        THEN MkPath(output_path.dir, input_path.stem \o Converted, target_format)
        ELSE output_path

\* the chain with the LOSSY_FORMATS test moved to the front
AutoTarget_LossyFirst(ext) ==
    IF ext \in LOSSY_FORMATS THEN WEBP
    ELSE PNG

\* a choice that looks at the quality setting as well
AutoTarget_ByQuality(ext) ==
    IF ext \in LOSSY_FORMATS \ { WEBP } /\ quality <= 100 THEN WEBP ELSE PNG

\* the if/elif chain of convert_image for target_format is None
AutoTarget(ext) ==
    IF ext \in { WEBP, <<"a","v","i","f">>, <<"h","e","i","c">>, <<"h","e","i","f">> }
    THEN PNG
    ELSE IF ext \in TRANSPARENCY_FORMATS THEN PNG
    ELSE IF ext \in LOSSY_FORMATS THEN WEBP
    ELSE IF ext \in PNG_TARGET_FORMATS THEN PNG
    ELSE IF ext = <<"s","v","g">> THEN PNG
    ELSE PNG

----------------------------------------------------------------------------
(* Saving: format_map and Image.save *)

\* save options of Image.save; a key that is not passed is not in keys
Options(keys, q, m, c) == [keys |-> keys, quality |-> q, method |-> m, compression |-> c]

NoOptions == Options({}, 0, 0, "")

FormatMapKeys ==
    { WEBP, PNG, JPG, <<"j","p","e","g">>, <<"b","m","p">>, <<"g","i","f">>,
      <<"t","i","f","f">>, <<"t","i","f">>, <<"i","c","o">>, <<"j","f","i","f">>,
      <<"j","p","e">> }

\* a table that passes the quality to every encoder
format_map_QualityEverywhere(target_format) ==
    [pil_format |-> upper(target_format),
     save_options |-> Options({"quality"}, quality, 0, "")]

format_map(target_format) ==
    IF target_format = WEBP
    THEN [pil_format |-> upper(WEBP),
          save_options |-> Options({"quality", "method"}, quality, 6, "")]
    ELSE IF target_format = PNG
    THEN [pil_format |-> upper(PNG), save_options |-> Options({"optimize"}, 0, 0, "")]
    ELSE IF target_format \in { JPG, <<"j","p","e","g">>, <<"j","f","i","f">>, <<"j","p","e">> }
    THEN [pil_format |-> <<"J","P","E","G">>,
          save_options |-> Options({"quality", "optimize"}, quality, 0, "")]
    ELSE IF target_format = <<"b","m","p">>
    THEN [pil_format |-> <<"B","M","P">>, save_options |-> NoOptions]
    ELSE IF target_format = <<"g","i","f">>
    THEN [pil_format |-> <<"G","I","F">>, save_options |-> Options({"optimize"}, 0, 0, "")]
    ELSE IF target_format \in { <<"t","i","f","f">>, <<"t","i","f">> }
    THEN [pil_format |-> <<"T","I","F","F">>,
          save_options |-> Options({"compression"}, 0, 0, "lzw")]
    ELSE [pil_format |-> <<"I","C","O">>, save_options |-> NoOptions]

\* a save that is pointed at the path without its suffix
SaveCall_NoSuffix(path, pil_format, save_options, mode) ==
    [path |-> [path EXCEPT !.ext = <<>>], pil_format |-> pil_format,
     save_options |-> save_options, mode |-> mode]

\* one img.save call: where, which encoder, which options, which image mode
SaveCall(path, pil_format, save_options, mode) ==
    [path |-> path, pil_format |-> pil_format, save_options |-> save_options, mode |-> mode]

----------------------------------------------------------------------------
(* convert_image *)

\* What the environment does to one call: the step that raises ("none" = no
\* step raises).  A fault naming a step the call never reaches has no effect.
Faults == {"none", "exists", "open", "composite", "mkdir", "save"}

\* Image.mode of the opened file
Modes == {"RGB", "RGBA", "LA", "P"}

\* message: what happened, the input it names and the exception text
Message(kind, subject, detail) == [kind |-> kind, subject |-> subject, detail |-> detail]

\* input_path.name: the last component
Name(p) == [p EXCEPT !.dir = <<>>]

\* input_path.suffix
Suffix(p) == [p EXCEPT !.dir = <<>>, !.stem = <<>>]

\* an outcome that always reports success
Outcome_Optimistic(raised, success, output_path, message, target, opens, mkdirs, saves) ==
    [raised |-> raised, success |-> TRUE, output_path |-> output_path,
     message |-> message, target |-> target,
     opens |-> opens, mkdirs |-> mkdirs, saves |-> saves]

\* The outcome of one call.  raised = TRUE: an exception left the function and
\* there is no return value.  target is the resolved target_format (None when the
\* call ended before resolving it); opens, mkdirs, saves are the calls made to
\* Image.open, Path.mkdir and Image.save, in order.
Outcome(raised, success, output_path, message, target, opens, mkdirs, saves) ==
    [raised |-> raised, success |-> success, output_path |-> output_path,
     message |-> message, target |-> target,
     opens |-> opens, mkdirs |-> mkdirs, saves |-> saves]

\* the `except Exception as e` handler: input_path.name is read on whatever
\* input_path is bound to when the exception arrives
Handler(input_path, text, target, opens, mkdirs, saves) ==
    IF input_path.valid
    THEN Outcome(FALSE, FALSE, NoPath, Message("Error converting", Name(input_path), text),
                 target, opens, mkdirs, saves)
    ELSE Outcome(TRUE, FALSE, NoPath, Message("AttributeError", NoPath, "name"),
                 target, opens, mkdirs, saves)

\* lines 136-146: the image mode handed to save
Composite(target_format, mode) ==
    IF target_format = JPG /\ mode \in {"RGBA", "LA", "P"} THEN "RGB"
    ELSE IF mode = "P" THEN "RGB"
    ELSE mode

Composites(target_format, mode) ==
    (target_format = JPG /\ mode \in {"RGBA", "LA", "P"}) \/ mode = "P"

\* an existence test that is made only for supported extensions
NotFound_SupportedOnly(input_path, exists) == ~exists /\ is_supported(input_path)

\* line 106: `if not input_path.exists()`, decided before is_supported
NotFound(input_path, exists) == ~exists

convert_image(input_value, target_arg, exists, fault, mode) ==
    IF ~input_value.valid
    THEN \* Path(input_path) raises TypeError with input_path still unconverted
         Handler(input_value, "TypeError", None, 0, <<>>, <<>>)
    ELSE
    LET input_path == input_value IN
    IF fault = "exists"
    THEN Handler(input_path, "exists", None, 0, <<>>, <<>>)
    ELSE IF NotFound(input_path, exists)
    THEN Outcome(FALSE, FALSE, NoPath, Message("File not found", input_path, ""), None, 0, <<>>, <<>>)
    ELSE IF ~is_supported(input_path)
    THEN Outcome(FALSE, FALSE, NoPath, Message("Unsupported format", Suffix(input_path), ""), None, 0, <<>>, <<>>)
    ELSE
    LET target_format == IF target_arg = None
                         THEN AutoTarget(lower(input_path.ext))
                         ELSE target_arg
    IN
    IF fault = "open"
    THEN Handler(input_path, "open", target_format, 1, <<>>, <<>>)
    ELSE IF fault = "composite" /\ Composites(target_format, mode)
    THEN Handler(input_path, "composite", target_format, 1, <<>>, <<>>)
    ELSE
    LET img         == Composite(target_format, mode)
        output_path == get_output_path(input_path, target_format)
    IN
    IF fault = "mkdir"
    THEN Handler(input_path, "mkdir", target_format, 1, <<output_path.dir>>, <<>>)
    ELSE IF target_format \in FormatMapKeys
    THEN LET fm   == format_map(target_format)
             save == SaveCall(output_path, fm.pil_format, fm.save_options, img)
         IN  IF fault = "save"
             THEN Handler(input_path, "save", target_format, 1,
                          <<output_path.dir>>, <<save>>)
             ELSE Outcome(FALSE, TRUE, output_path, Message("Converted", Name(input_path), ""),
                          target_format, 1, <<output_path.dir>>, <<save>>)
    ELSE \* not in format_map: save under the upper-cased name, any exception
         \* becomes "Unsupported target format"
         LET save == SaveCall(output_path, upper(target_format), NoOptions, img)
         IN  IF fault = "save"
             THEN Outcome(FALSE, FALSE, NoPath, Message("Unsupported target format", Suffix(output_path), ""),
                          target_format, 1, <<output_path.dir>>, <<save>>)
             ELSE Outcome(FALSE, TRUE, output_path, Message("Converted", Name(input_path), ""),
                          target_format, 1, <<output_path.dir>>, <<save>>)

----------------------------------------------------------------------------
(* Direct use of an ImageConverter: construct it, then call one method *)

ConvDir    == <<"in">>
ConvStems  == { <<"a">> }
ConvExts   == SUPPORTED_FORMATS \cup
              { upper(PNG), <<"P","n","g">>, upper(WEBP), upper(JPG),
                <<"t","x","t">>, <<>> }
ConvPaths  == { MkPath(ConvDir, s, e) : s \in ConvStems, e \in ConvExts }
ConvInputs == ConvPaths \cup { NoPath }
ConvTargets == { None, <<"s","v","g">> } \cup FormatMapKeys
ConvOutputDirs == { None, <<>>, <<"in">>, <<"out">> }
ConvQualities  == { 100, 150 }

\* the text of the quality entry: a decimal number, or text int() rejects
QInt(n)  == [num |-> TRUE, val |-> n, text |-> ""]
QText(t) == [num |-> FALSE, val |-> 0, text |-> t]

\* the namespace of a run without arguments (line 1900-1907 defaults)
NoArgs == [folder |-> None, output |-> None, quality |-> 90, recursive |-> FALSE]

\* exit_code before the process has exited
NotExited == <<>>

NoIO == [called |-> <<>>, made |-> <<>>, saved |-> <<>>]

Call(op, input, target, exists, fault, mode) ==
    [op |-> op, input |-> input, target |-> target, exists |-> exists,
     fault |-> fault, mode |-> mode]

\* ImageConverter.__init__(output_dir, quality): both stored as given
InitConvert ==
    /\ platform \in {"posix", "windows"}
    /\ output_dir \in ConvOutputDirs
    /\ quality \in ConvQualities
    /\ call = <<>>
    /\ result = <<>>
    /\ tree = {}
    /\ pc = "lib"
    /\ args = NoArgs
    /\ exit_code = NotExited
    /\ image_files = <<>>
    /\ results = <<>>
    /\ io = NoIO
    /\ pending_files = <<>>
    /\ selected_files = {}
    /\ drag_start_index = <<>>
    /\ is_converting = FALSE
    /\ should_stop = FALSE
    /\ quality_var = QInt(100)
    /\ target_format_var = <<"P","N","G">>
    /\ workers = <<>>
    /\ after_queue = <<>>
    /\ output_file_sizes = {}
    /\ is_dragging = FALSE
    /\ thumbnails = {}
    /\ sel_iter = <<>>
    /\ started_with = <<>>

ConvertImage ==
    /\ call = <<>>
    /\ \E input \in ConvInputs, target \in ConvTargets, exists \in BOOLEAN,
          fault \in Faults, mode \in Modes :
          /\ call' = << Call("convert_image", input, target, exists, fault, mode) >>
          /\ result' = << convert_image(input, target, exists, fault, mode) >>
    /\ UNCHANGED <<envVars, output_dir, quality, pc, cliVars, io, guiVars>>

GetOutputPath ==
    /\ call = <<>>
    /\ \E input \in ConvPaths, target \in ConvTargets \ {None} :
          /\ call' = << Call("get_output_path", input, target, TRUE, "none", "RGB") >>
          /\ result' = << Outcome(FALSE, FALSE, get_output_path(input, target),
                                  Message("get_output_path", input, ""), target,
                                  0, <<>>, <<>>) >>
    /\ UNCHANGED <<envVars, output_dir, quality, pc, cliVars, io, guiVars>>

NextConvert == ConvertImage \/ GetOutputPath

SpecConvert == InitConvert /\ [][NextConvert]_vars

----------------------------------------------------------------------------
(* The filesystem seen by convert_folder *)

InDir  == <<"in">>
SubDir == <<"in", "sub">>

\* directories that exist; any other folder argument is not a directory
Dirs == { InDir, SubDir }

\* a file named ".png": pathlib gives it the stem ".png" and no suffix
DotFile == MkPath(InDir, <<".","p","n","g">>, <<>>)

TreeFiles ==
    { DotFile,
      MkPath(InDir, <<"a">>, PNG),
      MkPath(InDir, <<"b">>, upper(JPG)),
      MkPath(InDir, <<"d">>, <<"P","n","g">>),
      MkPath(InDir, <<"n">>, <<"t","x","t">>),
      MkPath(SubDir, <<"a">>, WEBP) }

\* how many files the folder tree holds at most
MaxTree == 2

IsDir(d) == d \in Dirs

\* d is folder or a directory below it
IsPrefix(folder, d) ==
    Len(folder) <= Len(d) /\ SubSeq(d, 1, Len(folder)) = folder

\* p.name: the stem and, when there is one, the suffix
FullName(p) == IF p.ext = <<>> THEN p.stem ELSE p.stem \o << "." >> \o p.ext

\* str.endswith
EndsWith(s, t) ==
    Len(t) <= Len(s) /\ SubSeq(s, Len(s) - Len(t) + 1, Len(s)) = t

\* fnmatch of a name against "*" + ext, ext with its dot: case-sensitive on
\* POSIX, case-folded on Windows; "*" also matches nothing
ExtMatch(name, pat) ==
    IF platform = "windows"
    THEN EndsWith(lower(name), << "." >> \o lower(pat))
    ELSE EndsWith(name, << "." >> \o pat)

\* folder_path.glob(pattern + ext): pattern '*' or '**/*'
Glob(folder, recursive, pat) ==
    { f \in tree : /\ IF recursive THEN IsPrefix(folder, f.dir) ELSE f.dir = folder
                   /\ ExtMatch(FullName(f), pat) }

\* the orders in which a set can be listed
Perms(S) ==
    { q \in [1..Cardinality(S) -> S] : \A i, j \in 1..Cardinality(S) : q[i] = q[j] => i = j }

RECURSIVE Concats(_)
\* groups is a sequence of sets; every way to list each set in turn
Concats(groups) ==
    IF groups = <<>> THEN { <<>> }
    ELSE { h \o t : h \in Perms(Head(groups)), t \in Concats(Tail(groups)) }

\* the extensions of SUPPORTED_FORMATS that match some file of the universe;
\* the glob of any other extension is empty in every tree
RelevantExts ==
    { e \in SUPPORTED_FORMATS : \E f \in TreeFiles : lower(f.ext) = e }

\* the orders in which the loop can meet them
ExtOrders == Perms(RelevantExts)

\* lines 205-208: for ext in SUPPORTED_FORMATS (a set: iteration order is
\* arbitrary), the glob of ext then the glob of ext.upper(), each in directory
\* order (arbitrary)
Enumerations(folder, recursive) ==
    UNION { Concats([i \in 1..(2 * Len(order)) |->
                       IF i % 2 = 1
                       THEN Glob(folder, recursive, order[(i + 1) \div 2])
                       ELSE Glob(folder, recursive, upper(order[i \div 2]))])
            : order \in ExtOrders }

----------------------------------------------------------------------------
(* Command line: main, folder_mode, convert_folder *)

CliFolders   == { None, InDir, <<"nodir">> }
CliOutputs   == { None, <<"out">> }
CliQualities == { 0, 1, 90, 100, 150 }

\* what the environment does to one conversion of a batch
ProgFaults == { "none", "open", "save" }
ProgModes  == { "RGB" }

\* the same for a conversion made by the window's thread
WorkerFaults == { "none", "open" }

\* the check that accepts every quality
QualityValid_Any(q) == TRUE

\* line 1912: 1 <= args.quality <= 100
QualityValid(q) == 1 <= q /\ q <= 100

\* convert_folder returning [] for a folder without images
EarlyReturn_NoEmptyCheck(folder_path, files) ==
    IF ~IsDir(folder_path)
    THEN << Outcome(FALSE, FALSE, NoPath, Message("Not a directory", MkPath(folder_path, <<>>, <<>>), ""),
                    None, 0, <<>>, <<>>) >>
    ELSE <<>>

\* lines 200-201 and 210-211: the list returned before any conversion, <<>>
\* when the loop is entered
EarlyReturn(folder_path, files) ==
    IF ~IsDir(folder_path)
    THEN << Outcome(FALSE, FALSE, NoPath, Message("Not a directory", MkPath(folder_path, <<>>, <<>>), ""),
                    None, 0, <<>>, <<>>) >>
    ELSE IF files = <<>>
    THEN << Outcome(FALSE, FALSE, NoPath, Message("No supported images found in folder", NoPath, ""),
                    None, 0, <<>>, <<>>) >>
    ELSE <<>>

\* a loop body that keeps only the successes
AppendResult_SuccessOnly(rs, r) == IF r.success THEN Append(rs, r) ELSE rs

\* line 216: results.append(result)
AppendResult(rs, r) == Append(rs, r)

RECURSIVE CountSuccess(_)
\* lines 1868-1872
CountSuccess(rs) ==
    IF rs = <<>> THEN 0
    ELSE (IF Head(rs).success THEN 1 ELSE 0) + CountSuccess(Tail(rs))

\* exit 0 as soon as one file converted
ExitStatus_AnySuccess(rs) == IF CountSuccess(rs) > 0 THEN 0 ELSE 1

\* lines 1876 and 1919: sys.exit(0 if success_count == len(results) else 1)
ExitStatus(rs) == IF CountSuccess(rs) = Len(rs) THEN 0 ELSE 1

\* the batch's record: convert_image is called on input ...
Calling(log, input) == [log EXCEPT !.called = Append(@, input)]

\* ... and returns r, having made these mkdir and save calls
Returned(log, r) == [log EXCEPT !.made = @ \o r.mkdirs, !.saved = @ \o r.saves]

\* what a run without --folder is started with
GuiRunQualities == { 0, 90, 150 }

\* the files on disk during a run of the window
GuiTree ==
    { MkPath(InDir, <<"a">>, PNG),
      MkPath(InDir, <<"a">>, upper(JPG)),
      MkPath(InDir, <<"n">>, <<"t","x","t">>) }

\* Process start.  A run without --folder ignores --output and --recursive.
Init ==
    /\ platform \in {"posix", "windows"}
    /\ args \in { a \in [folder : CliFolders, output : CliOutputs,
                         quality : CliQualities, recursive : BOOLEAN] :
                    a.folder = None => /\ a.output = None /\ ~a.recursive
                                       /\ a.quality \in GuiRunQualities }
    /\ tree \in IF args.folder = None
               THEN { GuiTree }
               ELSE { t \in SUBSET TreeFiles : Cardinality(t) <= MaxTree }
    /\ pc = "main"
    /\ exit_code = NotExited
    /\ output_dir = None
    /\ quality = 100
    /\ call = <<>>
    /\ result = <<>>
    /\ image_files = <<>>
    /\ results = <<>>
    /\ io = NoIO
    /\ pending_files = <<>>
    /\ selected_files = {}
    /\ drag_start_index = <<>>
    /\ is_converting = FALSE
    /\ should_stop = FALSE
    /\ quality_var = QInt(100)
    /\ target_format_var = <<"P","N","G">>
    /\ workers = <<>>
    /\ after_queue = <<>>
    /\ output_file_sizes = {}
    /\ is_dragging = FALSE
    /\ thumbnails = {}
    /\ sel_iter = <<>>
    /\ started_with = <<>>

\* main, lines 1909-1914: a quality outside 1..100 ends the process
MainRejectQuality ==
    /\ pc = "main"
    /\ ~QualityValid(args.quality)
    /\ pc' = "exit"
    /\ exit_code' = << 1 >>
    /\ UNCHANGED <<envVars, output_dir, quality, libVars, args,
                   image_files, results, io, guiVars>>

\* main 1917-1918, folder_mode 1854-1866 and convert_folder 197-211: build the
\* converter, enumerate the folder, return early or enter the loop
MainFolder ==
    /\ pc = "main"
    /\ QualityValid(args.quality)
    /\ Truthy(args.folder)
    /\ quality' = args.quality
    /\ output_dir' = IF args.output = None
                     THEN Append(args.folder, "converted")
                     ELSE args.output
    /\ \E files \in (IF IsDir(args.folder)
                     THEN Enumerations(args.folder, args.recursive)
                     ELSE { <<>> }) :
          /\ image_files' = files
          /\ results' = EarlyReturn(args.folder, files)
    /\ pc' = "folder"
    /\ UNCHANGED <<envVars, libVars, args, exit_code, io, guiVars>>

\* the loop entered and not yet finished
InLoop == EarlyReturn(args.folder, image_files) = <<>> /\ Len(io.called) < Len(image_files)

\* convert_folder 214-216: one iteration
FolderStep ==
    /\ pc = "folder"
    /\ InLoop
    /\ \E fault \in ProgFaults, mode \in ProgModes :
          LET img_file == image_files[Len(io.called) + 1]
              r == convert_image(img_file, None, TRUE, fault, mode)
          IN  /\ results' = AppendResult(results, r)
              /\ io' = Returned(Calling(io, img_file), r)
    /\ UNCHANGED <<envVars, output_dir, quality, libVars, pc, args,
                   exit_code, image_files, guiVars>>

\* convert_folder returns, folder_mode tallies (1868-1876), main exits (1919)
FolderDone ==
    /\ pc = "folder"
    /\ ~InLoop
    /\ exit_code' = << ExitStatus(results) >>
    /\ pc' = "exit"
    /\ UNCHANGED <<envVars, output_dir, quality, libVars, args,
                   image_files, results, io, guiVars>>

\* main 1920-1923: no folder, the window opens; closing it ends mainloop, main
\* returns and the interpreter exits with status 0
MainGui ==
    /\ pc = "main"
    /\ QualityValid(args.quality)
    /\ ~Truthy(args.folder)
    /\ pc' = "gui"
    /\ UNCHANGED <<envVars, output_dir, quality, libVars, cliVars, io, guiVars>>

----------------------------------------------------------------------------
(* The window: ConverterGUI *)

\* entries of the format combobox (line 601) the model selects among
GuiFormats == { <<"P","N","G">>, <<"W","e","b","P">> }

\* texts typed into the quality entry
TypedQualities == { QInt(0), QInt(150), QText(""), QText("abc") }

\* items dropped on the window or chosen in a dialog: files and folders
DropItems ==
    { [isdir |-> FALSE, dir |-> <<>>, path |-> f] :
        f \in GuiTree \cup { DotFile, MkPath(InDir, <<"z">>, PNG) } }
    \cup { [isdir |-> TRUE, dir |-> InDir, path |-> NoPath] }

\* how many conversion threads one run of the window starts at most
MaxBatches == 2

\* validate_quality, lines 760-772, run on every write of quality_var; text
\* that is not a number is not made of digits either
validate_quality(value) ==
    IF value.num
    THEN IF value.val < 1 THEN QInt(1)
         ELSE IF value.val > 100 THEN QInt(100)
         ELSE value
    ELSE IF value.text # "" THEN QInt(100)
    ELSE value

\* lines 1772-1778: the quality the thread stores in the converter
ThreadQuality(value) ==
    IF value.num
    THEN (IF value.val > 100 THEN 100 ELSE IF value.val < 1 THEN 1 ELSE value.val)
    ELSE 100

\* a thread that forgets the failures it counted
Worker_SkipsDropped(p, files, i, success_count, skipped_count, target_format) ==
    [pc |-> p, files |-> files, i |-> i, success_count |-> success_count,
     skipped_count |-> 0, target_format |-> target_format]

Worker(p, files, i, success_count, skipped_count, target_format) ==
    [pc |-> p, files |-> files, i |-> i, success_count |-> success_count,
     skipped_count |-> skipped_count, target_format |-> target_format]

\* a thread that has not run yet / that has returned
NewWorker  == Worker("begin", <<>>, 0, 0, 0, None)
DoneWorker == Worker("done", <<>>, 0, 0, 0, None)

Live(w) == w.pc \notin { "done", "dead" }

\* list membership with Path.__eq__
InList(p, list) == \E i \in DOMAIN list : PathEq(list[i], p)

RECURSIVE Ascending(_)
\* iteration over a set of small ints
Ascending(S) ==
    IF S = {} THEN <<>>
    ELSE LET m == CHOOSE x \in S : \A y \in S : x <= y
         IN  << m >> \o Ascending(S \ {m})

\* a comprehension that keeps every entry of the queue
Pick_All(list, indices) == list

RECURSIVE Pick(_, _)
\* [list[i] for i in indices if 0 <= i < len(list)]
Pick(list, indices) ==
    IF indices = <<>> THEN <<>>
    ELSE (IF 0 <= Head(indices) /\ Head(indices) < Len(list)
          THEN << list[Head(indices) + 1] >> ELSE <<>>)
         \o Pick(list, Tail(indices))

\* lines 1667-1671
get_files_to_convert ==
    IF selected_files # {}
    THEN Pick(pending_files, Ascending(selected_files))
    ELSE pending_files

RECURSIVE AddEach(_, _)
\* append each candidate that is not queued yet
AddEach(list, candidates) ==
    IF candidates = <<>> THEN list
    ELSE AddEach(IF InList(Head(candidates), list) THEN list
                 ELSE Append(list, Head(candidates)),
                 Tail(candidates))

\* lines 1676-1695 for one entry of file_paths; listing is the order in which
\* the folder's globs produced its files
AddPath(list, item, listing) ==
    IF ~item.isdir
    THEN IF item.path \in tree /\ is_supported(item.path)
         THEN AddEach(list, << item.path >>)
         ELSE list
    ELSE IF IsDir(item.dir) THEN AddEach(list, listing)
    ELSE list

\* start_conversion without the is_converting test
StartRefused_QueueOnly == pending_files = <<>>

\* line 1749
StartRefused == is_converting \/ pending_files = <<>>

\* a loop that never looks at the flag
ReadStop_Never == FALSE

\* line 1799
ReadStop == should_stop

\* conversion_complete that empties the queue
QueueAfterComplete_Cleared(q) == <<>>

\* lines 1825-1841: the queue is not touched
QueueAfterComplete(q) == q

\* a thread that died of an exception in get_files_to_convert
DeadWorker == Worker("dead", <<>>, 0, 0, 0, None)

Range(list) == { list[i] : i \in DOMAIN list }

\* update_thumbnail_grid, lines 1556-1557, with create_thumbnail, lines
\* 1332-1341: every queued file that is not cached yet is opened and cached
\* (the two dicts are filled and emptied together)
Refreshed(cache, list) == cache \cup Range(list)

\* lines 1640-1643: the cache entries of the files that left the queue
Dropped(cache, before, after) ==
    { p \in cache : ~(InList(p, before) /\ ~InList(p, after)) }

\* line 1670: the comprehension starts to iterate over the set object S
SetIter(S) == << [sel |-> S, same |-> TRUE, torn |-> FALSE, shrunk |-> FALSE] >>

\* the set object is changed in place (add, remove, update, clear): if it is
\* the one being iterated and its size changes, the iteration is torn
InPlace(it, old, new) ==
    IF it = <<>> THEN it
    ELSE << [it[1] EXCEPT !.torn = @ \/ (it[1].same /\ new # old)] >>

\* self.selected_files is bound to a new set: the iterated one is left alone
Rebound(it) ==
    IF it = <<>> THEN it ELSE << [it[1] EXCEPT !.same = FALSE] >>

\* self.pending_files loses entries in place (pop, clear)
Popped(it, old, new) ==
    IF it = <<>> THEN it
    ELSE << [it[1] EXCEPT !.shrunk = @ \/ Len(new) < Len(old)] >>

\* lines 1673-1701
AddFiles ==
    /\ pc = "gui"
    /\ \E item \in DropItems :
         \E listing \in (IF item.isdir THEN Enumerations(item.dir, FALSE) ELSE { <<>> }) :
            pending_files' = AddPath(pending_files, item, listing)
    /\ thumbnails' = IF pending_files' # pending_files
                     THEN Refreshed(thumbnails, pending_files')
                     ELSE thumbnails
    /\ UNCHANGED <<envVars, output_file_sizes, is_dragging, sel_iter, started_with, output_dir, quality, libVars, pc, cliVars, io,
                   selected_files, drag_start_index, is_converting, should_stop,
                   quality_var, target_format_var, workers, after_queue>>

\* lines 1619-1626
ClearFileList ==
    /\ pc = "gui"
    /\ pending_files' = <<>>
    /\ selected_files' = {}
    /\ thumbnails' = {}
    /\ sel_iter' = InPlace(Popped(sel_iter, pending_files, <<>>), selected_files, {})
    /\ UNCHANGED <<envVars, output_file_sizes, is_dragging, started_with, output_dir, quality, libVars, pc, cliVars, io,
                   drag_start_index, is_converting, should_stop,
                   quality_var, target_format_var, workers, after_queue>>

RECURSIVE PopEach_Ascending(_, _)
\* pops made lowest index first, so that later entries have moved
PopEach_Ascending(list, indices) ==
    IF indices = <<>> THEN list
    ELSE LET idx == Head(indices)
         IN  PopEach_Ascending(IF 0 <= idx /\ idx < Len(list)
                               THEN SubSeq(list, 1, idx) \o SubSeq(list, idx + 2, Len(list))
                               ELSE list,
                               Tail(indices))

RECURSIVE PopEach(_, _)
\* lines 1635-1638: pop the indices, highest first, when in range
PopEach(list, indices) ==
    IF indices = <<>> THEN list
    ELSE LET idx == indices[Len(indices)]
             rest == SubSeq(indices, 1, Len(indices) - 1)
         IN  PopEach(IF 0 <= idx /\ idx < Len(list)
                     THEN SubSeq(list, 1, idx) \o SubSeq(list, idx + 2, Len(list))
                     ELSE list,
                     rest)

\* lines 1628-1646
RemoveSelectedFiles ==
    /\ pc = "gui"
    /\ IF selected_files = {}
       THEN UNCHANGED <<pending_files, selected_files, thumbnails, sel_iter>>
       ELSE /\ pending_files' = PopEach(pending_files, Ascending(selected_files))
            /\ selected_files' = {}
            /\ thumbnails' = Refreshed(Dropped(thumbnails, pending_files, pending_files'),
                                       pending_files')
            /\ sel_iter' = InPlace(Popped(sel_iter, pending_files, pending_files'),
                                   selected_files, {})
    /\ UNCHANGED <<envVars, output_file_sizes, is_dragging, started_with, output_dir, quality, libVars, pc, cliVars, io,
                   drag_start_index, is_converting, should_stop,
                   quality_var, target_format_var, workers, after_queue>>

\* lines 1648-1651
SelectAllFiles ==
    /\ pc = "gui"
    /\ selected_files' = 0..(Len(pending_files) - 1)
    /\ thumbnails' = Refreshed(thumbnails, pending_files)
    /\ sel_iter' = Rebound(sel_iter)
    /\ UNCHANGED <<envVars, output_file_sizes, is_dragging, started_with, output_dir, quality, libVars, pc, cliVars, io,
                   pending_files, drag_start_index, is_converting, should_stop,
                   quality_var, target_format_var, workers, after_queue>>

\* event.state & 0x1, event.state & 0x4
Bit1(state) == state % 2 = 1
Bit4(state) == (state \div 4) % 2 = 1

\* the modifier states with which <Shift-Button-1> is delivered
ClickStates == { 1, 5 }

\* on_click of the thumbnail at index, lines 1413-1432
OnClick ==
    /\ pc = "gui"
    /\ \E index \in 0..(Len(pending_files) - 1), state \in ClickStates :
         IF Bit1(state)
         THEN /\ selected_files' = IF index \in selected_files
                                   THEN selected_files \ {index}
                                   ELSE selected_files \cup {index}
              /\ drag_start_index' = << index >>
              /\ sel_iter' = InPlace(sel_iter, selected_files, selected_files')
         ELSE IF Bit4(state) /\ drag_start_index # <<>>
         THEN LET a == drag_start_index[1]
                  lo == IF a < index THEN a ELSE index
                  hi == IF a < index THEN index ELSE a
              IN  /\ selected_files' = selected_files \cup (lo..hi)
                  /\ sel_iter' = InPlace(sel_iter, selected_files, selected_files')
                  /\ UNCHANGED drag_start_index
         ELSE /\ selected_files' = {index}
              /\ drag_start_index' = << index >>
              /\ sel_iter' = Rebound(sel_iter)
    /\ thumbnails' = Refreshed(thumbnails, pending_files)
    /\ UNCHANGED <<envVars, output_file_sizes, is_dragging, started_with, output_dir, quality, libVars, pc, cliVars, io,
                   pending_files, is_converting, should_stop,
                   quality_var, target_format_var, workers, after_queue>>

\* the modifier states with which <ButtonPress-1> reaches on_button_press:
\* none, or Control (0x4); with Shift (0x1) the press goes to on_click
PressStates == { 0, 4 }

\* on_button_press of the thumbnail at index, lines 1443-1450
OnButtonPress ==
    /\ pc = "gui"
    /\ \E index \in 0..(Len(pending_files) - 1), state \in PressStates :
         IF ~Bit1(state) /\ ~Bit4(state)
         THEN /\ is_dragging' = TRUE
              /\ drag_start_index' = << index >>
              /\ IF index \notin selected_files
                 THEN /\ selected_files' = {index}
                      /\ sel_iter' = Rebound(sel_iter)
                      /\ thumbnails' = Refreshed(thumbnails, pending_files)
                 ELSE UNCHANGED <<selected_files, sel_iter, thumbnails>>
         ELSE UNCHANGED <<is_dragging, drag_start_index, selected_files, sel_iter,
                          thumbnails>>
    /\ UNCHANGED <<envVars, output_file_sizes, started_with, output_dir, quality, libVars,
                   pc, cliVars, io, pending_files, is_converting, should_stop,
                   quality_var, target_format_var, workers, after_queue>>

\* on_drag_motion of the thumbnail at index, lines 1452-1458, and
\* on_canvas_drag over it, lines 1591-1617: <B1-Motion> with the pointer over
\* a thumbnail of the grid
OnDragMotion ==
    /\ pc = "gui"
    /\ \E index \in 0..(Len(pending_files) - 1) :
         IF is_dragging /\ drag_start_index # <<>>
         THEN LET a == drag_start_index[1]
                  start == IF a < index THEN a ELSE index
                  end == IF a < index THEN index ELSE a
              IN  /\ selected_files' = selected_files \cup (start..end)
                  /\ sel_iter' = InPlace(sel_iter, selected_files, selected_files')
                  /\ thumbnails' = Refreshed(thumbnails, pending_files)
         ELSE UNCHANGED <<selected_files, sel_iter, thumbnails>>
    /\ UNCHANGED <<envVars, output_file_sizes, is_dragging, started_with, output_dir,
                   quality, libVars, pc, cliVars, io, pending_files, drag_start_index,
                   is_converting, should_stop, quality_var, target_format_var,
                   workers, after_queue>>

\* on_button_release, lines 1460-1461, and the canvas binding of line 1587
OnButtonRelease ==
    /\ pc = "gui"
    /\ is_dragging' = FALSE
    /\ UNCHANGED <<envVars, output_file_sizes, thumbnails, sel_iter, started_with,
                   output_dir, quality, libVars, pc, cliVars, io, pending_files,
                   selected_files, drag_start_index, is_converting, should_stop,
                   quality_var, target_format_var, workers, after_queue>>

\* a write of the quality entry and its validate_quality trace
TypeQuality ==
    /\ pc = "gui"
    /\ \E text \in TypedQualities : quality_var' = validate_quality(text)
    /\ UNCHANGED <<envVars, output_file_sizes, is_dragging, thumbnails, sel_iter, started_with, output_dir, quality, libVars, pc, cliVars, io,
                   pending_files, selected_files, drag_start_index, is_converting,
                   should_stop, target_format_var, workers, after_queue>>

\* a choice in the format combobox
SelectFormat ==
    /\ pc = "gui"
    /\ \E f \in GuiFormats : target_format_var' = f
    /\ UNCHANGED <<envVars, output_file_sizes, is_dragging, thumbnails, sel_iter, started_with, output_dir, quality, libVars, pc, cliVars, io,
                   pending_files, selected_files, drag_start_index, is_converting,
                   should_stop, quality_var, workers, after_queue>>

\* lines 1747-1758
StartHandler ==
    /\ pc = "gui"
    /\ \/ /\ StartRefused
          /\ UNCHANGED <<is_converting, should_stop, workers, io>>
       \/ /\ ~StartRefused
          /\ Len(workers) < MaxBatches
          /\ is_converting' = TRUE
          /\ should_stop' = FALSE
          /\ workers' = Append(workers, NewWorker)
          /\ io' = NoIO
    /\ UNCHANGED <<envVars, output_file_sizes, is_dragging, thumbnails, sel_iter, output_dir, quality, libVars, pc, cliVars,
                   pending_files, selected_files, drag_start_index,
                   quality_var, target_format_var, after_queue>>

\* the Start button
StartConversion == StartHandler /\ UNCHANGED started_with

\* the Start button, with the history of what get_files_to_convert would
\* have returned to a caller at that moment
StartRecorded ==
    /\ StartHandler
    /\ started_with' = IF Len(workers') > Len(workers)
                       THEN << get_files_to_convert >>
                       ELSE started_with

\* a Stop button that is obeyed without a batch
StopAccepted_Always == TRUE

\* line 1762
StopAccepted == is_converting

\* lines 1760-1764
StopConversion ==
    /\ pc = "gui"
    /\ should_stop' = IF StopAccepted THEN TRUE ELSE should_stop
    /\ UNCHANGED <<envVars, output_file_sizes, is_dragging, thumbnails, sel_iter, started_with, output_dir, quality, libVars, pc, cliVars, io,
                   pending_files, selected_files, drag_start_index, is_converting,
                   quality_var, target_format_var, workers, after_queue>>

\* the outcomes of the comprehension of line 1670 that was started as it:
\* a set whose size changed under the iterator raises RuntimeError, a list
\* that shrank between the range test and the subscript may raise IndexError,
\* otherwise the entries of the list as it is now are picked
Comprehended(it, list) ==
    IF it.torn THEN { << "raise" >> }
    ELSE { << "return", Pick(list, Ascending(it.sel)) >> }
         \cup (IF it.shrunk THEN { << "raise" >> } ELSE {})

\* convert_files_thread, lines 1772-1785: quality and target are read and
\* get_files_to_convert, lines 1667-1671, runs beside the event loop: first the
\* truth test of line 1669 and the start of the comprehension (or the copy of
\* line 1671), then, in a second step, the comprehension's end
WorkerBegin(k) ==
    /\ pc = "gui"
    /\ workers[k].pc \in { "begin", "iterate" }
    /\ LET w == workers[k]
           Got(files, target) == Worker(IF files = <<>> THEN "post" ELSE "poll",
                                        files, 1, 0, 0, target)
       IN  IF w.pc = "begin"
           THEN /\ quality' = ThreadQuality(quality_var)
                /\ IF selected_files # {}
                   THEN /\ sel_iter' = SetIter(selected_files)
                        /\ workers' = [workers EXCEPT ![k] =
                              Worker("iterate", <<>>, 1, 0, 0, lower(target_format_var))]
                        /\ UNCHANGED started_with
                   ELSE /\ sel_iter' = <<>>
                        /\ workers' = [workers EXCEPT ![k] =
                              Got(pending_files, lower(target_format_var))]
                        /\ started_with' = <<>>
           ELSE /\ sel_iter' = <<>>
                /\ started_with' = <<>>
                /\ UNCHANGED quality
                /\ \E o \in Comprehended(sel_iter[1], pending_files) :
                     workers' = [workers EXCEPT ![k] =
                                   IF o[1] = "raise" THEN DeadWorker
                                   ELSE Got(o[2], w.target_format)]
    /\ UNCHANGED <<envVars, output_file_sizes, is_dragging, thumbnails, output_dir,
                   libVars, pc, cliVars, io,
                   pending_files, selected_files, drag_start_index, is_converting,
                   should_stop, quality_var, target_format_var, after_queue>>

\* lines 1798-1807: the flag is read; the loop is left or convert_image called
WorkerPoll(k) ==
    /\ pc = "gui"
    /\ workers[k].pc = "poll"
    /\ IF ReadStop
       THEN /\ workers' = [workers EXCEPT ![k].pc = "post"]
            /\ UNCHANGED io
       ELSE /\ workers' = [workers EXCEPT ![k].pc = "running"]
            /\ io' = Calling(io, workers[k].files[workers[k].i])
    /\ UNCHANGED <<envVars, output_file_sizes, is_dragging, thumbnails, sel_iter, started_with, output_dir, quality, libVars, pc, cliVars,
                   pending_files, selected_files, drag_start_index, is_converting,
                   should_stop, quality_var, target_format_var, after_queue>>

\* lines 1811-1814: after a success the thread stores the size of the output
\* under the input path
SizeRecorded(sizes, file_path, r) ==
    IF r.success /\ r.output_path.valid THEN sizes \cup { file_path } ELSE sizes

\* lines 1807-1820: convert_image returns and is tallied
WorkerReturn(k) ==
    /\ pc = "gui"
    /\ workers[k].pc = "running"
    /\ \E fault \in WorkerFaults, mode \in ProgModes :
         LET w == workers[k]
             r == convert_image(w.files[w.i], w.target_format, TRUE, fault, mode)
         IN  /\ workers' = [workers EXCEPT ![k] =
                   Worker(IF w.i = Len(w.files) THEN "post" ELSE "poll",
                          w.files, w.i + 1,
                          w.success_count + (IF r.success THEN 1 ELSE 0),
                          w.skipped_count + (IF r.success THEN 0 ELSE 1),
                          w.target_format)]
             /\ io' = Returned(io, r)
             /\ output_file_sizes' = SizeRecorded(output_file_sizes, w.files[w.i], r)
    /\ UNCHANGED <<envVars, is_dragging, thumbnails, sel_iter, started_with, output_dir, quality, libVars, pc, cliVars,
                   pending_files, selected_files, drag_start_index, is_converting,
                   should_stop, quality_var, target_format_var, after_queue>>

\* line 1823: the tally is posted and the thread returns
WorkerPost(k) ==
    /\ pc = "gui"
    /\ workers[k].pc = "post"
    /\ after_queue' = Append(after_queue,
                             [success_count |-> workers[k].success_count,
                              skipped_count |-> workers[k].skipped_count,
                              total_files   |-> Len(workers[k].files)])
    /\ workers' = [workers EXCEPT ![k] = DoneWorker]
    /\ UNCHANGED <<envVars, output_file_sizes, is_dragging, thumbnails, sel_iter, started_with, output_dir, quality, libVars, pc, cliVars, io,
                   pending_files, selected_files, drag_start_index, is_converting,
                   should_stop, quality_var, target_format_var>>

WorkerStep == \E k \in DOMAIN workers :
    WorkerBegin(k) \/ WorkerPoll(k) \/ WorkerReturn(k) \/ WorkerPost(k)

\* lines 1825-1845, run by the event loop for the oldest posted tally
ConversionComplete ==
    /\ pc = "gui"
    /\ after_queue # <<>>
    /\ after_queue' = Tail(after_queue)
    /\ is_converting' = FALSE
    /\ should_stop' = FALSE
    /\ selected_files' = {}
    /\ pending_files' = QueueAfterComplete(pending_files)
    /\ thumbnails' = Refreshed(thumbnails, pending_files')
    /\ sel_iter' = InPlace(sel_iter, selected_files, {})
    /\ UNCHANGED <<envVars, output_file_sizes, is_dragging, started_with, output_dir, quality, libVars, pc, cliVars, io,
                   drag_start_index, quality_var, target_format_var, workers>>

\* the window is closed: mainloop and main return, the interpreter exits with
\* status 0 and the daemon thread dies with it; the process state is gone
GuiQuit ==
    /\ pc = "gui"
    /\ pc' = "exit"
    /\ exit_code' = << 0 >>
    /\ quality' = 100
    /\ io' = NoIO
    /\ pending_files' = <<>>
    /\ selected_files' = {}
    /\ drag_start_index' = <<>>
    /\ is_converting' = FALSE
    /\ should_stop' = FALSE
    /\ quality_var' = QInt(100)
    /\ target_format_var' = <<"P","N","G">>
    /\ workers' = <<>>
    /\ after_queue' = <<>>
    /\ output_file_sizes' = {}
    /\ is_dragging' = FALSE
    /\ thumbnails' = {}
    /\ sel_iter' = <<>>
    /\ started_with' = <<>>
    /\ UNCHANGED <<envVars, output_dir, libVars, args, image_files, results>>

\* The process: the command line, and the window with its settings, its queue
\* and its conversion thread.  Selection and Stop are left to SpecBatch: they
\* write selected_files, drag_start_index and should_stop only, which decide
\* which files a batch converts and not how one file is converted.
Next ==
    \/ MainRejectQuality
    \/ MainFolder
    \/ FolderStep
    \/ FolderDone
    \/ MainGui
    \/ AddFiles
    \/ TypeQuality
    \/ SelectFormat
    \/ StartConversion
    \/ WorkerStep
    \/ ConversionComplete
    \/ GuiQuit

Spec == Init /\ [][Next]_vars

\* The window right after ConverterGUI.__init__ (lines 333-342), with the
\* settings left as they start: quality "100", format PNG, no output folder.
InitBatch ==
    /\ platform \in {"posix", "windows"}
    /\ tree = GuiTree
    /\ args = NoArgs
    /\ pc = "gui"
    /\ exit_code = NotExited
    /\ output_dir = None
    /\ quality = 100
    /\ call = <<>>
    /\ result = <<>>
    /\ image_files = <<>>
    /\ results = <<>>
    /\ io = NoIO
    /\ pending_files = <<>>
    /\ selected_files = {}
    /\ drag_start_index = <<>>
    /\ is_converting = FALSE
    /\ should_stop = FALSE
    /\ quality_var = QInt(100)
    /\ target_format_var = <<"P","N","G">>
    /\ workers = <<>>
    /\ after_queue = <<>>
    /\ output_file_sizes = {}
    /\ is_dragging = FALSE
    /\ thumbnails = {}
    /\ sel_iter = <<>>
    /\ started_with = <<>>

\* The events of the window that touch the queue, the selection, the two flags
\* and the thread
NextBatch ==
    \/ AddFiles
    \/ ClearFileList
    \/ RemoveSelectedFiles
    \/ SelectAllFiles
    \/ OnClick
    \/ StartConversion
    \/ StopConversion
    \/ WorkerStep
    \/ ConversionComplete

SpecBatch == InitBatch /\ [][NextBatch]_vars

\* The batch events with the history of what was queued at Start
NextBatchRecorded ==
    \/ AddFiles
    \/ ClearFileList
    \/ RemoveSelectedFiles
    \/ SelectAllFiles
    \/ OnClick
    \/ StartRecorded
    \/ StopConversion
    \/ WorkerStep
    \/ ConversionComplete

SpecBatchRecorded == InitBatch /\ [][NextBatchRecorded]_vars

\* The batch events with a thread that is scheduled while it can run and an
\* event loop that runs the callbacks posted to it
SpecBatchLive ==
    InitBatch /\ [][NextBatch]_vars /\ WF_vars(WorkerStep) /\ WF_vars(ConversionComplete)

\* The events of the window that touch the queue and the selection, without
\* a batch
NextQueue ==
    \/ AddFiles
    \/ ClearFileList
    \/ RemoveSelectedFiles
    \/ SelectAllFiles
    \/ OnClick
    \/ OnButtonPress
    \/ OnDragMotion
    \/ OnButtonRelease

\* the window with a queue to fill, beside a folder that also holds DotFile
InitQueue ==
    /\ platform \in {"posix", "windows"}
    /\ tree = GuiTree \cup { DotFile }
    /\ args = NoArgs
    /\ pc = "gui"
    /\ exit_code = NotExited
    /\ output_dir = None
    /\ quality = 100
    /\ call = <<>>
    /\ result = <<>>
    /\ image_files = <<>>
    /\ results = <<>>
    /\ io = NoIO
    /\ pending_files = <<>>
    /\ selected_files = {}
    /\ drag_start_index = <<>>
    /\ is_converting = FALSE
    /\ should_stop = FALSE
    /\ quality_var = QInt(100)
    /\ target_format_var = <<"P","N","G">>
    /\ workers = <<>>
    /\ after_queue = <<>>
    /\ output_file_sizes = {}
    /\ is_dragging = FALSE
    /\ thumbnails = {}
    /\ sel_iter = <<>>
    /\ started_with = <<>>

SpecQueue == InitQueue /\ [][NextQueue]_vars

----------------------------------------------------------------------------
(* Claims about ImageConverter used directly (SpecConvert) *)

Called(op) == call # <<>> /\ call[1].op = op

\* the precedence table as the specification words it, first match wins
C1_Table(ext) ==
    IF ext \in { <<"w","e","b","p">>, <<"a","v","i","f">>, <<"h","e","i","c">>,
                 <<"h","e","i","f">> } THEN <<"p","n","g">>
    ELSE IF ext \in { <<"p","n","g">>, <<"g","i","f">>, <<"w","e","b","p">>,
                      <<"t","i","f","f">>, <<"t","i","f">>, <<"i","c","o">> }
         THEN <<"p","n","g">>
    ELSE IF ext \in { <<"j","p","g">>, <<"j","p","e","g">>, <<"j","f","i","f">>,
                      <<"j","p","e">>, <<"j","p","2">>, <<"j","p","x">>,
                      <<"j","2","k">>, <<"j","2","c">>, <<"w","e","b","p">> }
         THEN <<"w","e","b","p">>
    ELSE <<"p","n","g">>

\* C1: for an existing input with a supported extension and no explicit target,
\* convert_image resolves the target by the precedence table applied to the
\* lower-cased extension; a .webp input resolves to .png, never .webp, and
\* photo.webp, icon.bmp, shot.jpg resolve to png, png, webp.  The path handed to
\* the encoder and the returned output path carry that target.
C1_AutoTargetByTable ==
    (/\ Called("convert_image")
     /\ call[1].input.valid /\ call[1].exists /\ call[1].fault # "exists"
     /\ is_supported(call[1].input)
     /\ call[1].target = None)
    => LET ext == lower(call[1].input.ext)
           r   == result[1]
       IN  /\ r.target = C1_Table(ext)
           /\ r.target \in { <<"p","n","g">>, <<"w","e","b","p">> }
           /\ ext = <<"w","e","b","p">> => r.target = <<"p","n","g">>
           /\ ext = <<"b","m","p">> => r.target = <<"p","n","g">>
           /\ ext = <<"j","p","g">> => r.target = <<"w","e","b","p">>
           /\ r.saves # <<>> => r.saves[1].path.ext = r.target
           /\ r.success => r.output_path.ext = r.target

\* a WEBP input (upper-case suffix) converted with no explicit target to a png
C1_Witness ==
    /\ Called("convert_image")
    /\ call[1].input.ext = <<"W","E","B","P">>
    /\ call[1].target = None
    /\ result[1].success
    /\ result[1].output_path.ext = <<"p","n","g">>

\* C2: convert_image never raises past its boundary: whatever the input value
\* and whichever of the existence check, open, compositing, directory creation
\* or save fails, the call returns a failure outcome (success = False, no output
\* path) whose message is the error text, and no step is made twice.
C2_NeverRaises ==
    Called("convert_image")
    => LET r == result[1]
       IN  /\ ~r.raised
           /\ ~r.success =>
                /\ r.output_path = NoPath
                /\ r.message.kind \in { "File not found", "Unsupported format",
                                        "Error converting", "Unsupported target format" }
           /\ r.opens <= 1 /\ Len(r.mkdirs) <= 1 /\ Len(r.saves) <= 1

\* the path the call computed: get_output_path's value, or where save was pointed
C3_Computed ==
    IF Called("get_output_path") THEN << result[1].output_path >>
    ELSE IF Called("convert_image") /\ result[1].saves # <<>>
    THEN << result[1].saves[1].path >>
    ELSE <<>>

\* C3: the output path is (output directory override, else the input's own
\* directory) + input stem + target extension, except that when this equals the
\* input path it is stem + '_converted' + target extension; so the path written
\* is never the path of the file being converted.
C3_OutputPathNeverInput ==
    C3_Computed # <<>>
    => LET inp  == call[1].input
           tgt  == IF Called("get_output_path") THEN call[1].target ELSE result[1].target
           d    == IF output_dir \in { None, <<>> } THEN inp.dir ELSE output_dir
           base == [valid |-> TRUE, dir |-> d, stem |-> inp.stem, ext |-> tgt]
           out  == C3_Computed[1]
       IN  /\ out = IF PathEq(base, inp)
                    THEN [valid |-> TRUE, dir |-> d,
                          stem |-> inp.stem \o <<"_","c","o","n","v","e","r","t","e","d">>,
                          ext |-> tgt]
                    ELSE base
           /\ out # inp
           /\ ~PathEq(out, inp)

\* a.png converted to PNG with no output directory is written to a_converted.png
C3_Witness ==
    /\ Called("convert_image")
    /\ output_dir = None
    /\ call[1].input = [valid |-> TRUE, dir |-> <<"in">>, stem |-> <<"a">>,
                        ext |-> <<"p","n","g">>]
    /\ call[1].target = <<"p","n","g">>
    /\ result[1].success
    /\ result[1].output_path =
         [valid |-> TRUE, dir |-> <<"in">>,
          stem |-> <<"a","_","c","o","n","v","e","r","t","e","d">>,
          ext |-> <<"p","n","g">>]

----------------------------------------------------------------------------
(* Claims about the window's conversion thread (SpecBatch) *)

LiveWorkers == { k \in DOMAIN workers : Live(workers[k]) }

\* C4: at most one conversion thread exists at any time, and none while
\* is_converting is false; while is_converting is true no step starts a thread
\* (start_conversion returns without changing anything), whatever Start, Stop,
\* queue edits, thread steps and the completion callback do in between.
C4_OneWorker ==
    /\ [](/\ Cardinality(LiveWorkers) <= 1
          /\ Cardinality(LiveWorkers) + Len(after_queue) <= 1
          /\ ~is_converting => LiveWorkers = {} /\ after_queue = <<>>)
    /\ [][is_converting => Len(workers') = Len(workers)]_vars

\* the second batch of a run is converting: the first one ended before it began
C4_Witness ==
    /\ Len(workers) = 2
    /\ is_converting
    /\ ~Live(workers[1])
    /\ workers[2].pc = "running"

\* C5: the thread reads should_stop once before each file and calls
\* convert_image only when it read false; a conversion already running when Stop
\* arrives returns and its outcome is counted.
C5_CooperativeStop ==
    /\ [][Len(io'.called) > Len(io.called) => ~should_stop]_vars
    /\ [][\A k \in DOMAIN workers :
            (workers[k].pc = "running" /\ workers'[k] # workers[k])
            => workers'[k].success_count + workers'[k].skipped_count
               = workers[k].success_count + workers[k].skipped_count + 1]_vars
    /\ [](\A k \in LiveWorkers :
            workers[k].pc \in {"poll", "running", "post"}
            => /\ workers[k].success_count + workers[k].skipped_count
                  = workers[k].i - 1
               /\ Len(io.called)
                  = workers[k].i - 1 + (IF workers[k].pc = "running" THEN 1 ELSE 0))

\* Stop arrived during the first of two conversions: it was counted, and the
\* loop was left before the second file
C5_Witness ==
    \E k \in DOMAIN workers :
       /\ workers[k].pc = "post"
       /\ should_stop
       /\ Len(workers[k].files) = 2
       /\ workers[k].i = 2
       /\ workers[k].success_count + workers[k].skipped_count = 1
       /\ Len(io.called) = 1

\* C6: no step of a batch (thread step, posted tally, completion callback)
\* adds, removes or reorders queue entries; the completion callback leaves the
\* queue as it is, empties the selection and resets is_converting and
\* should_stop.
C6_QueueIntact ==
    /\ [][(workers' # workers \/ after_queue' # after_queue)
          => pending_files' = pending_files]_vars
    /\ [][(is_converting /\ ~is_converting')
          => /\ pending_files' = pending_files
             /\ selected_files' = {}
             /\ ~should_stop']_vars

\* after a whole batch of two files the queue still holds both
C6_Witness ==
    /\ workers # <<>>
    /\ \A k \in DOMAIN workers : ~Live(workers[k])
    /\ ~is_converting /\ ~should_stop
    /\ after_queue = <<>>
    /\ Len(io.called) = 2
    /\ Len(pending_files) = 2
    /\ selected_files = {}

----------------------------------------------------------------------------
(* Claims about the command line (Spec) *)

FolderRun == pc \in {"folder", "exit"} /\ Truthy(args.folder) /\ QualityValid(args.quality)

\* the name of a file of the folder (of its subtree when recursive) matches a
\* supported extension
SupportedInFolder ==
    \E f \in tree :
       /\ IF args.recursive THEN IsPrefix(args.folder, f.dir) ELSE f.dir = args.folder
       /\ \E e \in SUPPORTED_FORMATS : EndsWith(lower(FullName(f)), << "." >> \o e)

\* C7: when the path is not a directory, or the folder holds no file with a
\* supported extension, convert_folder returns exactly one failure outcome (no
\* output path), calls convert_image zero times and makes no directory and no
\* file.
C7_SingleFailure ==
    (FolderRun /\ (~IsDir(args.folder) \/ ~SupportedInFolder))
    => /\ Len(results) = 1
       /\ ~results[1].success
       /\ results[1].output_path = NoPath
       /\ io.called = <<>> /\ io.made = <<>> /\ io.saved = <<>>

\* a folder that holds a file, none of them an image
C7_Witness ==
    /\ pc = "exit"
    /\ IsDir(args.folder)
    /\ tree # {}
    /\ Len(results) = 1
    /\ results[1].message.kind = "No supported images found in folder"
    /\ exit_code = << 1 >>

\* C8: when files were found they are converted one after another in
\* enumeration order and the result holds exactly one outcome per file, the
\* i-th for the i-th enumerated file; a failure neither ends the loop nor drops
\* or repeats an outcome.
C8_OneOutcomePerFile ==
    (FolderRun /\ image_files # <<>>)
    => /\ Len(results) = Len(io.called)
       /\ Len(results) <= Len(image_files)
       /\ io.called = SubSeq(image_files, 1, Len(results))
       /\ \A i \in DOMAIN results :
             /\ results[i].message.subject =
                   IF results[i].message.kind = "Unsupported format"
                   THEN Suffix(image_files[i])
                   ELSE Name(image_files[i])
             /\ results[i].success => results[i].output_path.stem = image_files[i].stem
       /\ pc = "exit" => Len(results) = Len(image_files)

\* a failure on the first file, a success on the second
C8_Witness ==
    /\ pc = "exit"
    /\ Len(image_files) >= 2
    /\ Len(results) = Len(image_files)
    /\ ~results[1].success
    /\ results[2].success

AllSucceeded == \A i \in DOMAIN results : results[i].success

\* C9 as first stated: the process exits with 0 exactly when --folder is given
\* and every outcome of the batch is a success, and with 1 otherwise.
C9_ExitZeroOnlyFolder ==
    pc = "exit"
    => /\ exit_code \in { << 0 >>, << 1 >> }
       /\ exit_code = << 0 >>
          <=> (Truthy(args.folder) /\ QualityValid(args.quality) /\ AllSucceeded)

\* C9: with --quality outside 1..100 the process exits with 1 and attempts no
\* conversion; otherwise, with --folder, it exits with 0 exactly when every
\* outcome of the batch is a success (1 when a file fails, when the folder is
\* empty or is no directory); otherwise, without --folder, the window runs and
\* the process exits with 0 when it is closed.
C9_ExitCode ==
    pc = "exit"
    => IF ~(1 <= args.quality /\ args.quality <= 100)
       THEN exit_code = << 1 >> /\ results = <<>> /\ io = NoIO
       ELSE IF Truthy(args.folder)
       THEN /\ Len(results) >= 1
            /\ exit_code = IF AllSucceeded THEN << 0 >> ELSE << 1 >>
            /\ (~IsDir(args.folder) \/ image_files = <<>>) => exit_code = << 1 >>
       ELSE exit_code = << 0 >>

\* one file converted, the next failed: exit status 1
C9_Witness ==
    /\ pc = "exit"
    /\ Len(results) = 2
    /\ results[1].success
    /\ ~results[2].success
    /\ exit_code = << 1 >>

QualityInRange(q) == 1 <= q /\ q <= 100

Clamp(q) == IF q < 1 THEN 1 ELSE IF q > 100 THEN 100 ELSE q

EncoderQualityInRange ==
    \A i \in DOMAIN io.saved :
       "quality" \in io.saved[i].save_options.keys
       => QualityInRange(io.saved[i].save_options.quality)

\* C10 as first stated: a quality outside 1..100 is clamped before use on every
\* entry path; -q 150 behaves as -q 100 and -q 0 as -q 1, so a folder run
\* converts with the clamped quality.
C10_ClampedEverywhere ==
    /\ EncoderQualityInRange
    /\ (pc = "exit" /\ Truthy(args.folder))
       => /\ results # <<>>
          /\ quality = Clamp(args.quality)

\* C10: in a run of the program (command line or window) the quality handed
\* to an encoder is always in 1..100.  The window clamps the quality field into
\* 1..100 when a batch starts (text that is no number gives 100).  The command
\* line does not clamp: a --quality outside 1..100 ends the process with status
\* 1 before anything is converted, and the constructor stores the value it is
\* given unchanged.
C10_EncoderQuality ==
    /\ EncoderQualityInRange
    /\ pc = "gui" => QualityInRange(quality)
    /\ (pc # "main" /\ ~QualityInRange(args.quality))
       => pc = "exit" /\ exit_code = << 1 >> /\ io = NoIO
    /\ pc = "folder" => quality = args.quality

\* the entry was set to 0, the thread converted to WebP with quality 1
C10_Witness ==
    /\ pc = "gui"
    /\ quality_var = QInt(1)
    /\ io.saved # <<>>
    /\ io.saved[1].pil_format = <<"W","E","B","P">>
    /\ io.saved[1].save_options.quality = 1

----------------------------------------------------------------------------
(* Claims about one call of convert_image (SpecConvert) *)

\* a convert_image call on a path has returned
Converting == Called("convert_image") /\ call[1].input.valid

\* Path.exists() returned and said the file is there / is not there
Exists  == call[1].fault # "exists" /\ call[1].exists
Missing == call[1].fault # "exists" /\ ~call[1].exists

Untouched(r) == r.opens = 0 /\ r.mkdirs = <<>> /\ r.saves = <<>>

\* C11: for every input whose lower-cased extension is not in the supported
\* set, convert_image returns a failure outcome with no output path and opens no
\* image, makes no directory and writes no file, whether the input exists or not.
C11_UnsupportedUntouched ==
    (Converting /\ lower(call[1].input.ext) \notin SUPPORTED_FORMATS)
    => LET r == result[1]
       IN  /\ ~r.raised /\ ~r.success
           /\ r.output_path = NoPath
           /\ Untouched(r)
           /\ Exists => /\ r.message.kind = "Unsupported format"
                        /\ r.message.subject.ext = call[1].input.ext

\* an existing a.txt is refused
C11_Witness ==
    /\ Converting /\ Exists
    /\ call[1].input.ext = <<"t","x","t">>
    /\ call[1].fault = "save"
    /\ result[1].message.kind = "Unsupported format"
    /\ Untouched(result[1])

\* C12: for every input path that does not exist, whatever its extension,
\* convert_image returns the 'File not found' failure with no output path; the
\* existence test is decided before the extension test and before any
\* directory or file is made.
C12_NotFoundFirst ==
    (Converting /\ Missing)
    => LET r == result[1]
       IN  /\ ~r.raised /\ ~r.success
           /\ r.output_path = NoPath
           /\ r.message.kind = "File not found"
           /\ r.message.subject = call[1].input
           /\ r.target = None
           /\ Untouched(r)

\* a missing a.txt is reported as not found, not as unsupported
C12_Witness ==
    /\ Converting /\ Missing
    /\ call[1].input.ext = <<"t","x","t">>
    /\ result[1].message.kind = "File not found"

\* the call got as far as img.save
ReachesSave ==
    /\ Exists
    /\ call[1].fault \notin { "open", "mkdir" }
    /\ ~(call[1].fault = "composite" /\ Composites(result[1].target, call[1].mode))

\* C13 as first stated: for every existing input file with a supported
\* extension one call makes exactly one write attempt, never zero, to the path
\* computed by get_output_path, whether it ends in success or failure.
C13_ExactlyOneWrite ==
    (Converting /\ Exists /\ lower(call[1].input.ext) \in SUPPORTED_FORMATS)
    => /\ Len(result[1].saves) = 1
       /\ result[1].saves[1].path = get_output_path(call[1].input, result[1].target)

\* C13: for every input with a supported extension one call makes at most one
\* write attempt, and only to the path computed by get_output_path.  It makes
\* exactly one when the input exists and opening, mode conversion and directory
\* creation succeed, whether the save then succeeds or fails; it makes none
\* when the input is missing or one of those earlier steps fails.
C13_AtMostOneWrite ==
    (Converting /\ lower(call[1].input.ext) \in SUPPORTED_FORMATS)
    => LET r == result[1]
       IN  /\ Len(r.saves) <= 1
           /\ Len(r.saves) = 1 <=> ReachesSave
           /\ r.saves # <<>>
              => /\ r.saves[1].path = get_output_path(call[1].input, r.target)
                 /\ r.opens = 1
                 /\ r.mkdirs = << r.saves[1].path.dir >>
           /\ r.success => r.saves # <<>> /\ r.output_path = r.saves[1].path

\* the save raised: one write attempt, in a call that ends in failure
C13_Witness ==
    /\ Converting /\ Exists
    /\ call[1].input.ext = <<"j","p","g">>
    /\ call[1].fault = "save"
    /\ ~result[1].success
    /\ Len(result[1].saves) = 1

\* the call handed an image to an encoder
Saved == Converting /\ result[1].saves # <<>>

\* C14: for every target that is encoded as JPEG (.jpg, .jpeg, .jfif, .jpe) and
\* every source whose mode has an alpha channel or a palette (RGBA, LA, P), the
\* image handed to the encoder is an opaque RGB image; no image with alpha or
\* palette reaches the JPEG encoder.
C14_JpegOpaque ==
    (/\ Saved
     /\ result[1].saves[1].pil_format = <<"J","P","E","G">>
     /\ call[1].mode \in {"RGBA", "LA", "P"})
    => result[1].saves[1].mode = "RGB"

\* C15: a PNG that carries transparency (mode RGBA or LA, or a palette with
\* transparent entries, mode P) converted to PNG with an explicit target reaches
\* the encoder in a mode that still carries it; converted to JPEG the call
\* returns without raising and the encoder gets an opaque RGB image.
C15_PngRoundTrip ==
    (/\ Saved
     /\ lower(call[1].input.ext) = PNG
     /\ call[1].mode \in {"RGBA", "LA", "P"})
    => /\ call[1].target = PNG => result[1].saves[1].mode = call[1].mode
       /\ call[1].target = JPG => /\ ~result[1].raised
                                  /\ result[1].saves[1].mode = "RGB"

----------------------------------------------------------------------------
(* Claims about the enumeration of convert_folder (Spec) *)

\* the files convert_folder is meant to find
InScope ==
    { f \in tree :
        /\ IF args.recursive THEN IsPrefix(args.folder, f.dir) ELSE f.dir = args.folder
        /\ lower(f.ext) \in SUPPORTED_FORMATS }

Occurrences(list, x) == Cardinality({ i \in DOMAIN list : list[i] = x })

\* C16: convert_folder enumerates, exactly once each, every file of the folder
\* (direct children when not recursive, all depths when recursive) whose
\* extension is supported under case-insensitive comparison, mixed case
\* included, and nothing else.
C16_EnumeratesOnce ==
    (FolderRun /\ IsDir(args.folder))
    => /\ \A f \in InScope : Occurrences(image_files, f) = 1
       /\ \A i \in DOMAIN image_files : image_files[i] \in InScope

----------------------------------------------------------------------------
(* Claims about the tally and the thread's writes (SpecBatch) *)

Processed(t) == t.success_count + t.skipped_count

\* the thread left its loop at the `break`: files were still to come
CutShort(w) == w.i <= Len(w.files)

\* C17: the tally handed to conversion_complete has success_count +
\* skipped_count <= total_files; the sum is the number of files convert_image
\* was called for before the stop flag was observed, and it equals total_files
\* exactly when the loop was not cut short by the flag.
C17_Tally ==
    /\ [](\A n \in DOMAIN after_queue :
            /\ Processed(after_queue[n]) <= after_queue[n].total_files
            /\ Processed(after_queue[n]) = Len(io.called))
    /\ [][\A k \in DOMAIN workers :
            (workers[k].pc = "post" /\ workers'[k].pc = "done")
            => LET t == after_queue'[Len(after_queue')]
               IN  /\ t.total_files = Len(workers[k].files)
                   /\ Processed(t) = t.total_files <=> ~CutShort(workers[k])]_vars

\* a batch of two files stopped after the first, which had failed
C17_Witness ==
    /\ after_queue # <<>>
    /\ after_queue[1].total_files = 2
    /\ after_queue[1].success_count = 0
    /\ after_queue[1].skipped_count = 1
    /\ should_stop

\* C18: the thread never writes state owned by the event loop: every write to
\* output_file_sizes is made by a callback the event loop runs, never by a step
\* of the thread itself.
C18_SizesWrittenByEventLoop ==
    [][workers' # workers => output_file_sizes' = output_file_sizes]_vars

----------------------------------------------------------------------------
(* Claims about the choice of target and encoder (SpecConvert) *)

\* the target as a function of the lower-cased extension and nothing else
C19_Selected(ext) ==
    IF ext \in { <<"j","p","g">>, <<"j","p","e","g">>, <<"j","f","i","f">>,
                 <<"j","p","e">>, <<"j","p","2">>, <<"j","p","x">>,
                 <<"j","2","k">>, <<"j","2","c">> }
    THEN <<"w","e","b","p">>
    ELSE <<"p","n","g">>

\* the inputs that share an extension, case aside
SameExtension(p) == { p2 \in ConvPaths : lower(p2.ext) = lower(p.ext) }

\* C19: for every supported input extension the automatically selected target
\* is .png or .webp and is a function of the extension alone: whatever the
\* quality, the output directory, the image mode or the fate of the call, an
\* input with the same extension gets the same target.
C19_AutoTargetPure ==
    (/\ Converting /\ Exists
     /\ lower(call[1].input.ext) \in SUPPORTED_FORMATS
     /\ call[1].target = None)
    => /\ result[1].target \in { <<"p","n","g">>, <<"w","e","b","p">> }
       /\ result[1].target = C19_Selected(lower(call[1].input.ext))
       /\ \A p2 \in SameExtension(call[1].input), m \in Modes,
             f \in Faults \ {"exists"} :
             convert_image(p2, None, TRUE, f, m).target = result[1].target

\* a.JPG goes to webp also with quality 150, an output directory and a save
\* that fails
C19_Witness ==
    /\ Converting /\ Exists
    /\ call[1].input.ext = <<"J","P","G">>
    /\ call[1].target = None
    /\ call[1].fault = "save"
    /\ quality = 150
    /\ output_dir = <<"out">>
    /\ result[1].target = <<"w","e","b","p">>

JpegFamily == { <<"j","p","g">>, <<"j","p","e","g">>, <<"j","f","i","f">>, <<"j","p","e">> }

\* the encoder named for a target
C20_Encoder(t) ==
    IF t \in JpegFamily THEN <<"J","P","E","G">>
    ELSE IF t \in { <<"t","i","f","f">>, <<"t","i","f">> } THEN <<"T","I","F","F">>
    ELSE upper(t)

\* the options that are passed for a target
C20_Keys(t) ==
    IF t = <<"w","e","b","p">> THEN {"quality", "method"}
    ELSE IF t \in JpegFamily THEN {"quality", "optimize"}
    ELSE IF t \in { <<"p","n","g">>, <<"g","i","f">> } THEN {"optimize"}
    ELSE IF t \in { <<"t","i","f","f">>, <<"t","i","f">> } THEN {"compression"}
    ELSE {}

\* C20: encoder and options are fixed by the target alone (WebP: quality and
\* method 6; PNG: optimize; JPEG family: quality and optimize; TIFF: LZW; GIF:
\* optimize; BMP, ICO and other targets: defaults); for a target other than
\* WebP and the JPEG family nothing handed to the encoder and nothing returned
\* depends on the quality setting.
C20_EncoderByTarget ==
    Saved
    => LET r  == result[1]
           t  == r.target
           sv == r.saves[1]
           o  == sv.save_options
       IN  /\ sv.pil_format = C20_Encoder(t)
           /\ o.keys = C20_Keys(t)
           /\ "quality" \in o.keys => o.quality = quality
           /\ "method" \in o.keys => o.method = 6
           /\ "compression" \in o.keys => o.compression = "lzw"
           /\ (t # <<"w","e","b","p">> /\ t \notin JpegFamily)
              => /\ "quality" \notin o.keys
                 /\ o.quality = 0
                 /\ sv.path = get_output_path(call[1].input, t)
                 /\ r.success => /\ r.output_path = sv.path
                                 /\ r.message = Message("Converted", Name(call[1].input), "")

\* a TIFF written with LZW while the quality setting is 150
C20_Witness ==
    /\ Saved
    /\ quality = 150
    /\ result[1].target = <<"t","i","f","f">>
    /\ result[1].saves[1].save_options.keys = {"compression"}
    /\ result[1].saves[1].save_options.compression = "lzw"
    /\ result[1].success

-----------------------------------------------------------------------------
(* The batch and the foreground events beside it *)

\* C21: every batch started by start_conversion eventually reaches
\* conversion_complete, after which is_converting is false and a new batch can
\* be started, whatever the foreground does during the batch (clicks that
\* change the selection, Clear All, Remove Selected, adding files, Stop), as
\* long as every convert_image call returns.
C21_BatchCompletes == is_converting ~> ~is_converting

\* C22: the files a batch converts are those get_files_to_convert would have
\* returned when start_conversion was invoked; what the foreground does to the
\* selection or the queue after Start does not change them.
C22_FilesAsAtStart ==
    [][\A k \in DOMAIN workers :
          (/\ k \in DOMAIN workers'
           /\ workers[k].pc \in { "begin", "iterate" }
           /\ workers'[k].pc \in { "poll", "post" })
          => /\ started_with # <<>>
             /\ workers'[k].files = started_with[1]]_vars

\* the inputs of the running batch
BatchInputs == UNION { Range(workers[k].files) : k \in { n \in DOMAIN workers : Live(workers[n]) } }

\* C23: no conversion of a batch writes to a path that is an input file of the
\* same batch or an entry of the pending queue.
C23_NoInputOverwritten ==
    \A i \in DOMAIN io.saved :
       \A p \in BatchInputs \cup Range(pending_files) : ~PathEq(io.saved[i].path, p)

\* C24: within one batch distinct input files are written to distinct output
\* paths, also for inputs with one stem and different extensions and for
\* inputs of one name in different subdirectories of a recursive folder run.
C24_DistinctOutputs ==
    FolderRun
    => \A i \in DOMAIN results, j \in DOMAIN results :
          (/\ i <= Len(image_files) /\ j <= Len(image_files)
           /\ ~PathEq(image_files[i], image_files[j])
           /\ results[i].success /\ results[j].success)
          => ~PathEq(results[i].output_path, results[j].output_path)

\* the indices of S that lie inside list
InRange(S, list) == { i \in S : 0 <= i /\ i < Len(list) }

\* the thread of batch k gets its file list in this step
GotFiles(k) ==
    /\ k \in DOMAIN workers'
    /\ workers[k].pc \in { "begin", "iterate" }
    /\ workers'[k].pc \in { "poll", "post" }

\* C25: the file list of a batch is, when the selection set (as the thread
\* found it) is not empty, the queue entries at the selected indices that lie
\* inside the queue and no unselected entry; when it is empty, a copy of the
\* whole queue. start_conversion with an empty queue starts no batch.
C25_FileList ==
    /\ [][\A k \in DOMAIN workers :
            GotFiles(k)
            => LET files == workers'[k].files
                   S == IF workers[k].pc = "iterate" THEN sel_iter[1].sel ELSE {}
               IN  IF S # {}
                   THEN /\ Len(files) = Cardinality(InRange(S, pending_files))
                        /\ \A i \in InRange(S, pending_files) :
                              pending_files[i + 1] \in Range(files)
                        /\ \A j \in DOMAIN pending_files :
                              (j - 1) \notin S => pending_files[j] \notin Range(files)
                   ELSE files = pending_files]_vars
    /\ [][pending_files = <<>> => Len(workers') = Len(workers)]_vars

\* of a queue of two the second entry is selected and is the batch
C25_Witness ==
    /\ Len(pending_files) = 2
    /\ selected_files = {1}
    /\ \E k \in DOMAIN workers :
          /\ workers[k].pc = "poll"
          /\ workers[k].files = << pending_files[2] >>

\* C26: a stop request never carries over between batches: should_stop is
\* false when start_conversion starts a thread, stop_conversion has no effect
\* without an active batch, and a thread leaves its loop early only for a stop
\* requested during its own batch.
C26_StopNotCarriedOver ==
    /\ [](~is_converting => ~should_stop)
    /\ [][/\ Len(workers') > Len(workers) => ~should_stop'
          /\ (~should_stop /\ should_stop') => (is_converting /\ is_converting')
          /\ \A k \in DOMAIN workers :
                (/\ k \in DOMAIN workers'
                 /\ workers[k].pc = "poll" /\ workers'[k].pc = "post")
                => should_stop /\ is_converting]_vars

\* the second batch has started and no stop is pending
C26_Witness ==
    /\ Len(workers) = 2
    /\ workers[1] = DoneWorker
    /\ workers[2].pc = "poll"
    /\ is_converting
    /\ ~should_stop

\* C27: after any sequence of window operations every index in the selection
\* set is a valid index of the pending queue.
C27_SelectionInQueue ==
    \A i \in selected_files : 0 <= i /\ i < Len(pending_files)

\* the entries of list that are not at an index of S
Unselected(list, S) ==
    LET Kept(n) == { j \in 1..n : (j - 1) \notin S }
        F[n \in 0..Len(list)] ==
            IF n = 0 THEN <<>>
            ELSE IF n \in Kept(n) THEN Append(F[n - 1], list[n]) ELSE F[n - 1]
    IN  F[Len(list)]

\* C28: remove_selected_files with a non-empty selection removes from the queue
\* exactly the entries at the selected in-range indices, keeps the others in
\* their order, drops the removed files from the thumbnail caches and leaves
\* the selection empty; with an empty selection it changes nothing.
C28_RemoveSelected ==
    [][RemoveSelectedFiles
       => IF selected_files # {}
          THEN /\ pending_files' = Unselected(pending_files, selected_files)
               /\ selected_files' = {}
               /\ \A i \in InRange(selected_files, pending_files) :
                     pending_files[i + 1] \notin thumbnails'
          ELSE UNCHANGED vars]_vars

\* the second of two queued files was pressed and removed
C28_Witness ==
    /\ Len(pending_files) = 1
    /\ selected_files = {}
    /\ drag_start_index = << 1 >>
    /\ is_dragging
    /\ thumbnails = Range(pending_files)

\* a returned outcome: the flag, the path and the write agree
Agrees(r) ==
    /\ r.success <=> r.output_path.valid
    /\ r.success => /\ r.saves # <<>>
                    /\ r.output_path = r.saves[Len(r.saves)].path
    /\ ~r.success => r.output_path = NoPath

\* C29: every outcome returned by convert_image or convert_folder has a
\* success flag that is true exactly when its output path is present: success
\* implies an output path equal to the path that was written, failure implies
\* no output path.
C29_SuccessIffPath ==
    /\ \A i \in DOMAIN results : Agrees(results[i])
    /\ \A i \in DOMAIN result : ~result[i].raised => Agrees(result[i])

\* a folder run that returned a success and a failure
C29_Witness ==
    /\ FolderRun
    /\ \E i \in DOMAIN results : results[i].success
    /\ \E i \in DOMAIN results : ~results[i].success /\ results[i].opens = 1

\* C30: after any sequence of add, remove and clear operations the pending
\* queue contains no path twice and only paths whose extension is supported;
\* re-adding a path that is already queued leaves the queue unchanged.
C30_QueueClean ==
    /\ \A i, j \in DOMAIN pending_files :
          PathEq(pending_files[i], pending_files[j]) => i = j
    /\ \A i \in DOMAIN pending_files : is_supported(pending_files[i])
    /\ \A item \in DropItems :
          (~item.isdir /\ InList(item.path, pending_files))
          => AddPath(pending_files, item, <<>>) = pending_files

====
